---------------------------- MODULE Spec2Model ----------------------------
(***************************************************************************)
(* A model of the everythingrl content-generation server.                  *)
(*                                                                         *)
(*   - GameState.apply_action, the merge of one AiAction into a GameState  *)
(*     (src/server/game_types.py), under the specification Spec;           *)
(*   - the model gateway ask_google_vertex_ai, the JSON-lines extraction   *)
(*     ask_google_structured, its callers gen_* / craft, the big-prompt    *)
(*     request (src/server/ai.py) and the command-line generation loops    *)
(*     (src/server/main.py), under the specification SvcSpec, and under    *)
(*     FairSvcSpec where the single thread of control always takes its     *)
(*     next step.                                                          *)
(***************************************************************************)
EXTENDS Integers, Sequences, FiniteSets, Bags, TLC

VARIABLES
    gs,            \* the GameState document
    distinct0,     \* the GameState started with distinct names in each list
    lastAct,       \* the AiAction most recently applied (None before any)
    twice,         \* the last apply_action repeated the action before it
    op,            \* the top-level function in progress
    pc,            \* its position
    backend,       \* how the backend behaves during this call
    orig,          \* arguments of the caller's ask_google_vertex_ai call
    req,           \* arguments of the innermost ask_google_vertex_ai call
    sent,          \* the request the backend received last
    nSent,         \* backend requests made by this call (saturating)
    resp,          \* the backend's last answer
    text,          \* the response text, as its lines
    idx,           \* lines the extraction loop has processed
    output,        \* ask_google_structured's output list
    outcome,       \* pending, returned or raised
    error,         \* the exception that left the call, if any
    names_needed,  \* main.gen_monsters / gen_items: names still to define
    produced,      \* number of records the loop appended (saturating)
    stub,          \* gen_anything: how the patched backend call behaves
    instruction,   \* gen_anything: the requirements the last request listed
    rounds,        \* gen_anything: big-prompt requests issued (saturating)
    fullBatch,     \* the operations of a batch, as a bag
    pending,       \* the operations of the batch that are not applied yet
    lastBatch,     \* the operations the last step applied, in their order
    yielded,       \* streaming: the actions gen_actions has yielded
    last_error,    \* streaming: the error of the last line that was dropped
    endpoint,      \* the HTTP endpoint that serves the request
    req_theme,     \* the theme the request names
    body,          \* what reading and validating the request body gives
    calls,         \* model gateway calls made for the request (saturating)
    status,        \* HTTP status of the response, 0 before there is one
    payload,       \* kind of the response payload
    raw,           \* validation: the input a model class is built from
    validated      \* validation: what building the model gave

mergeVars == <<gs, distinct0, lastAct, twice>>
svcVars == <<op, pc, backend, orig, req, sent, nSent, resp, text, idx,
             output, outcome, error, names_needed, produced>>
loopVars == <<stub, instruction, rounds>>
batchVars == <<fullBatch, pending, lastBatch>>
streamVars == <<yielded, last_error>>
httpVars == <<endpoint, req_theme, body, calls, status, payload>>
valVars == <<raw, validated>>
extVars == <<stub, instruction, rounds, fullBatch, pending, lastBatch,
          yielded, last_error,
             endpoint, req_theme, body, calls, status, payload,
             raw, validated>>
vars == <<gs, distinct0, lastAct, twice, op, pc, backend, orig, req, sent, nSent, resp,
          text, idx, output, outcome, error, names_needed, produced,
          stub, instruction, rounds, fullBatch, pending, lastBatch,
          yielded, last_error,
          endpoint, req_theme, body, calls, status, payload,
          raw, validated>>

-----------------------------------------------------------------------------
(* Bounds of the model *)

\* total number of entries the four entity lists of a GameState may hold
MaxEntities == 2
\* lines of one response text
MaxLines == 3
\* the counters nSent and produced stop counting here
MaxCount == 2

-----------------------------------------------------------------------------
(* Content schema: game_types.py *)

\* Python's None, for the optional record-typed fields
None == [none |-> TRUE]
\* Python's None, for the optional string-typed fields
NoneStr == "<None>"

Names == {"a", "b"}
Texts == {"d1", "d2"}

\* Area, Monster, Item, Boss, Character: the name, which is all apply_action
\* reads, and one field standing for the rest of the content.
Area == [name : Names, blurb : Texts]
Monster == [name : Names, description : Texts]
Item == [name : Names, description : {"d1"}]
Boss == [name : {"a"}, description : Texts]
Character == [name : {"a"}, backstory : Texts]
SettingDescs == {"s1", "s2"}

Optional(S) == S \cup {None}

\* AiAction: six optional fields, None by default
AiAction == [set_setting_desc : {NoneStr, ""} \cup SettingDescs,
             add_area : Optional(Area),
             add_monster_def : Optional(Monster),
             add_item_def : Optional(Item),
             set_boss : Optional(Boss),
             add_character : Optional(Character)]

\* the number of fields of an action that are not None
Populated(a) ==
    (IF a.set_setting_desc # NoneStr THEN 1 ELSE 0)
    + (IF a.add_area # None THEN 1 ELSE 0)
    + (IF a.add_monster_def # None THEN 1 ELSE 0)
    + (IF a.add_item_def # None THEN 1 ELSE 0)
    + (IF a.set_boss # None THEN 1 ELSE 0)
    + (IF a.add_character # None THEN 1 ELSE 0)

\* the actions with several populated fields that the model applies: every
\* combination of fields, each populated field with one value
Combined ==
    {a \in [set_setting_desc : {NoneStr, "s1"},
            add_area : Optional({[name |-> "a", blurb |-> "d1"]}),
            add_monster_def : Optional({[name |-> "a", description |-> "d1"]}),
            add_item_def : Optional({[name |-> "a", description |-> "d1"]}),
            set_boss : Optional({[name |-> "a", description |-> "d1"]}),
            add_character : Optional({[name |-> "a", backstory |-> "d1"]})] :
        Populated(a) >= 2}

\* the actions the model applies: every action with at most one populated
\* field, and the combined ones
Actions == {a \in AiAction : Populated(a) <= 1} \cup Combined

\* GameState(theme=theme): every other field at its default
NewGameState(theme) ==
    [theme |-> theme, setting_desc |-> NoneStr, areas |-> <<>>,
     monsters |-> <<>>, items |-> <<>>, boss |-> None, characters |-> <<>>]

Themes == {"Cyberpunk"}

\* a variant: every string overwrites, the empty one included
Truthy_notnone(s) == s # NoneStr

\* a variant: the setting description is assigned whatever the field holds
Truthy_always(s) == TRUE

\* Python truthiness of an optional string: None and "" are false
Truthy(s) == s # NoneStr /\ s # ""

\* index of the first entry of list named name, 0 when there is none
FirstMatch(list, name) ==
    IF \E i \in 1..Len(list) : list[i].name = name
    THEN CHOOSE i \in 1..Len(list) :
            /\ list[i].name = name
            /\ \A j \in 1..(i - 1) : list[j].name # name
    ELSE 0

\* for (i, x) in enumerate(list): if x.name == new.name: list[i] = new
\* [break]  else: list.append(new)
\* Python runs the else clause of a for loop unless the loop ended by break.
ForElse(list, new, withBreak) ==
    LET first == FirstMatch(list, new.name)
        replaced == [i \in 1..Len(list) |->
                        IF list[i].name = new.name /\ (~withBreak \/ i = first)
                        THEN new ELSE list[i]]
        broke == withBreak /\ first > 0
    IN  IF broke THEN replaced ELSE Append(replaced, new)

\* a variant: the add_area loop without its break
upsert_area_nobreak(areas, area) == ForElse(areas, area, FALSE)

\* game_types.py 168-174: the add_area loop breaks at the first match
upsert_area(areas, area) == ForElse(areas, area, TRUE)

\* a variant: the add_monster_def loop replaces and never appends
upsert_monster_replace(monsters, monster) ==
    [i \in 1..Len(monsters) |->
        IF monsters[i].name = monster.name THEN monster ELSE monsters[i]]

\* a variant: add_monster_def overwrites the list with the new definition
upsert_monster_only(monsters, monster) == <<monster>>

\* game_types.py 175-180: the add_monster_def loop has no break
upsert_monster(monsters, monster) == ForElse(monsters, monster, FALSE)

\* game_types.py 181-186: the add_item_def loop has no break
upsert_item(items, item) == ForElse(items, item, FALSE)

\* a variant: set_boss fills the boss only when there is none
overwrite_boss_ifabsent(boss, new) == IF boss = None THEN new ELSE boss

\* game_types.py 187-188: self.boss = action.set_boss
overwrite_boss(boss, new) == new

\* a variant: add_character as a name-keyed upsert
append_character_upsert(characters, character) ==
    ForElse(characters, character, TRUE)

\* game_types.py 189-190: self.characters.append(action.add_character)
append_character(characters, character) == Append(characters, character)

\* a variant: the six tests as one if/elif chain, so that only the first
\* populated field takes effect
apply_action_elif(state, action) ==
    IF Truthy(action.set_setting_desc)
    THEN [state EXCEPT !.setting_desc = action.set_setting_desc]
    ELSE IF action.add_area # None
    THEN [state EXCEPT !.areas = upsert_area(@, action.add_area)]
    ELSE IF action.add_monster_def # None
    THEN [state EXCEPT !.monsters = upsert_monster(@, action.add_monster_def)]
    ELSE IF action.add_item_def # None
    THEN [state EXCEPT !.items = upsert_item(@, action.add_item_def)]
    ELSE IF action.set_boss # None
    THEN [state EXCEPT !.boss = action.set_boss]
    ELSE IF action.add_character # None
    THEN [state EXCEPT !.characters = Append(@, action.add_character)]
    ELSE state

\* GameState.apply_action
apply_action(state, action) ==
    [theme |-> state.theme,
     setting_desc |-> IF Truthy(action.set_setting_desc)
                      THEN action.set_setting_desc ELSE state.setting_desc,
     areas |-> IF action.add_area # None
               THEN upsert_area(state.areas, action.add_area)
               ELSE state.areas,
     monsters |-> IF action.add_monster_def # None
                  THEN upsert_monster(state.monsters, action.add_monster_def)
                  ELSE state.monsters,
     items |-> IF action.add_item_def # None
               THEN upsert_item(state.items, action.add_item_def)
               ELSE state.items,
     boss |-> IF action.set_boss # None
              THEN overwrite_boss(state.boss, action.set_boss)
              ELSE state.boss,
     characters |-> IF action.add_character # None
                    THEN append_character(state.characters,
                                          action.add_character)
                    ELSE state.characters]

\* no two entries of list have the same name
UniqueNames(list) ==
    \A i, j \in 1..Len(list) : list[i].name = list[j].name => i = j

DistinctNames(state) ==
    /\ UniqueNames(state.areas)
    /\ UniqueNames(state.monsters)
    /\ UniqueNames(state.items)

Entities(state) ==
    Len(state.areas) + Len(state.monsters) + Len(state.items)
    + Len(state.characters)

-----------------------------------------------------------------------------
(* The service is idle throughout Spec *)

SvcIdle ==
    /\ op = "none"
    /\ pc = "idle"
    /\ backend = "any"
    /\ orig = None
    /\ req = None
    /\ sent = None
    /\ nSent = 0
    /\ resp = "none"
    /\ text = <<>>
    /\ idx = 0
    /\ output = <<>>
    /\ outcome = "pending"
    /\ error = "none"
    /\ names_needed = {}
    /\ produced = 0

\* no backend call is patched
NoStub == [mode |-> "none"]

\* no content-completion loop is running
LoopIdle ==
    /\ stub = NoStub
    /\ instruction = <<>>
    /\ rounds = 0

\* no batch is being applied
BatchIdle ==
    /\ fullBatch = <<>>
    /\ pending = <<>>
    /\ lastBatch = <<>>

\* no stream is being read
StreamIdle == yielded = <<>> /\ last_error = "none"

\* no HTTP request is being served
HttpIdle ==
    /\ endpoint = "none"
    /\ req_theme = NoneStr
    /\ body = "none"
    /\ calls = 0
    /\ status = 0
    /\ payload = "none"

\* no model class has been built
Unvalidated == [status |-> "pending"]

ValIdle == raw = None /\ validated = Unvalidated

ExtIdle == LoopIdle /\ BatchIdle /\ StreamIdle /\ HttpIdle /\ ValIdle

-----------------------------------------------------------------------------
(* Spec: a GameState and the actions applied to it, one by one *)

\* the lists of exactly n entries of S
ListsOf(S, n) == [1..n -> S]

\* GameState(**game_state), as v1_anything builds it from a request body, and
\* GameState(theme=theme) as the tests build it: any state within the bounds
Init ==
    /\ \E theme \in Themes,
          setting_desc \in {NoneStr} \cup SettingDescs,
          boss \in Optional(Boss),
          la \in 0..MaxEntities :
       \E lm \in 0..(MaxEntities - la) :
       \E li \in 0..(MaxEntities - la - lm) :
       \E lc \in 0..(MaxEntities - la - lm - li) :
       \E areas \in ListsOf(Area, la),
          monsters \in ListsOf(Monster, lm),
          items \in ListsOf(Item, li),
          characters \in ListsOf(Character, lc) :
            gs = [theme |-> theme, setting_desc |-> setting_desc,
                  areas |-> areas, monsters |-> monsters, items |-> items,
                  boss |-> boss, characters |-> characters]
    /\ distinct0 = DistinctNames(gs)
    /\ lastAct = None
    /\ twice = FALSE
    /\ SvcIdle
    /\ ExtIdle

\* state.apply_action(action), as test_ai.py calls it for each action
ApplyAction ==
    \E action \in Actions :
        LET new == apply_action(gs, action)
        IN  /\ Entities(new) <= MaxEntities
            /\ gs' = new
        /\ lastAct' = action
        /\ twice' = (action = lastAct)
        /\ UNCHANGED <<distinct0, svcVars, extVars>>

Next == ApplyAction

Spec == Init /\ [][Next]_vars


-----------------------------------------------------------------------------
(* Model gateway: ai.py, ask_google_vertex_ai and ask_google *)

Prompts == {"p1", "p2"}

\* the system prompt ask_google_big_prompt builds (ai.py 172-184)
SystemPrompt == "system_prompt"

\* ask_google_vertex_ai(prompt_parts, system_instruction)
Request(prompt, system_instruction) ==
    [prompt |-> prompt, system_instruction |-> system_instruction]

\* What the backend does with one generate_content call: it raises
\* ResourceExhausted, or answers with a candidate whose finish reason is
\* SAFETY, with no candidate, with a candidate that has no part, or with text.
Responses == {"ResourceExhausted", "SAFETY", "NoCandidate", "NoPart", "Text"}

\* The backend during one call: "any" answers as it likes, "rate_limited"
\* answers every attempt with ResourceExhausted, "empty" answers every
\* request with a text that holds no record.
BackendModes == {"any", "rate_limited", "empty"}

Answers(mode) ==
    CASE mode = "rate_limited" -> {"ResourceExhausted"}
      [] mode = "empty" -> {"Text"}
      [] OTHER -> Responses

\* ai.py 98-101: except ResourceExhausted: sleep(1) and
\* return ask_google_vertex_ai(prompt_parts), system_instruction left at its
\* default None
RetryRequest(r) == Request(r.prompt, NoneStr)

\* a variant: a gateway that turns a missing candidate or part into AiError
ReadCandidate_wrapped(answer) ==
    CASE answer = "NoCandidate" -> "AiError"
      [] answer = "SAFETY" -> "AiError"
      [] answer = "NoPart" -> "AiError"
      [] OTHER -> "none"

\* ai.py 58-71: get_safety_error collects the rated categories and raises
\* AiError itself
get_safety_error == "AiError"

\* ai.py 102-116: the exception that reading the response raises, "none"
\* when it gives the text. candidates[0] and parts[0] raise IndexError on an
\* empty list; the handlers for KeyError and IndexError log and re-raise.
ReadCandidate(answer) ==
    CASE answer = "NoCandidate" -> "IndexError"
      [] answer = "SAFETY" -> get_safety_error
      [] answer = "NoPart" -> "IndexError"
      [] OTHER -> "none"

-----------------------------------------------------------------------------
(* Structured extraction: ai.py, ask_google_structured *)

\* One line of a response text: blank, not JSON, JSON that is no object, an
\* object that fails the target type's validation, or an object that
\* validates (with the name of its record).
Malformed == [kind : {"blank", "badjson", "nonobject", "invalid"},
              name : {"-"}]
WellFormed == [kind : {"valid"}, name : Names]
Line == Malformed \cup WellFormed

\* a variant: an object is accepted without validation
LineError_unvalidated(line) ==
    CASE line.kind \in {"blank", "badjson"} -> "JSONDecodeError"
      [] line.kind = "nonobject" -> "TypeError"
      [] OTHER -> "none"

\* ai.py 159-160: the exception json.loads(response) or
\* model(**response_json) raises for a line, "none" when the record validates
LineError(line) ==
    CASE line.kind \in {"blank", "badjson"} -> "JSONDecodeError"
      [] line.kind = "nonobject" -> "TypeError"
      [] line.kind = "invalid" -> "ValidationError"
      [] OTHER -> "none"

LineErrors == {"JSONDecodeError", "TypeError", "ValidationError"}

\* model(**response_json).model_dump()
Record(line) == [name |-> line.name]

\* a variant: a handler that catches the JSON error alone
CaughtByLineHandler_jsononly(exc) == exc = "JSONDecodeError"

\* ai.py 162 (v0/ai.py 309): except Exception catches every error of a line
CaughtByLineHandler(exc) == exc \in LineErrors

\* a variant: the gateway call moved into the try
GatewayCallInsideTry_moved == TRUE

\* ai.py 153: ask_google([prompt]) is called before the loop's try (158)
GatewayCallInsideTry == FALSE

\* ai.py 254, 311, 328: gen_setting_desc, gen_boss and craft take [0] of the
\* output list; 222, 242, 288, 350: the others return the list itself
IndexingCallers == {"gen_setting_desc", "gen_boss", "craft"}
ListCallers == {"gen_areas", "gen_monsters", "gen_items", "gen_characters"}
StructuredCallers == IndexingCallers \cup ListCallers

\* main.py 58-69, 76-94: the command-line loops
CliOps == {"cli_gen_monsters", "cli_gen_items"}

BigPrompt == "ask_google_big_prompt"

\* the exception output[0] raises, "none" when there is a first record
first_output(out) == IF Len(out) = 0 THEN "IndexError" ELSE "none"

Min(a, b) == IF a < b THEN a ELSE b

\* the texts the backend may give: up to MaxLines lines; under "empty" no
\* line holds a record
TextsOf(mode, n) ==
    [1..n -> IF mode = "empty" THEN Malformed ELSE Line]

-----------------------------------------------------------------------------
(* SvcSpec: one call at a time, from its entry to its return or raise *)

SvcInit ==
    /\ gs = NewGameState("Cyberpunk")
    /\ distinct0 = TRUE
    /\ lastAct = None
    /\ twice = FALSE
    /\ SvcIdle
    /\ ExtIdle

\* the caller enters ask_google_vertex_ai with request r
EnterGateway(r) ==
    /\ pc' = "gateway"
    /\ orig' = r
    /\ req' = r
    /\ sent' = None
    /\ nSent' = 0
    /\ resp' = "none"
    /\ text' = <<>>
    /\ idx' = 0
    /\ output' = <<>>

\* exception exc leaves the top-level function
Raise(exc) ==
    /\ pc' = "done"
    /\ outcome' = "raised"
    /\ error' = exc

\* gen_setting_desc, gen_boss, craft, gen_areas, gen_monsters, gen_items,
\* gen_characters: build the prompt and call ask_google_structured, which
\* calls ask_google([prompt]) with no system instruction
CallStructured ==
    /\ pc \in {"idle", "done"}
    /\ \E f \in StructuredCallers, mode \in BackendModes, p \in Prompts :
        /\ op' = f
        /\ backend' = mode
        /\ EnterGateway(Request(p, NoneStr))
    /\ outcome' = "pending"
    /\ error' = "none"
    /\ names_needed' = {}
    /\ produced' = 0
    /\ UNCHANGED <<mergeVars, extVars>>

\* ask_google_big_prompt: ask_google([prompt], system_instruction=system_prompt)
CallBigPrompt ==
    /\ pc \in {"idle", "done"}
    /\ \E mode \in BackendModes, p \in Prompts :
        /\ op' = BigPrompt
        /\ backend' = mode
        /\ EnterGateway(Request(p, SystemPrompt))
    /\ outcome' = "pending"
    /\ error' = "none"
    /\ names_needed' = {}
    /\ produced' = 0
    /\ UNCHANGED <<mergeVars, extVars>>

\* main.gen_monsters / main.gen_items up to the loop: names_needed is the set
\* of names the areas file refers to, the result list is empty
CliStart ==
    /\ pc \in {"idle", "done"}
    /\ \E f \in CliOps, mode \in BackendModes, names \in SUBSET Names :
        /\ op' = f
        /\ backend' = mode
        /\ names_needed' = names
    /\ pc' = "loop"
    /\ produced' = 0
    /\ outcome' = "pending"
    /\ error' = "none"
    /\ orig' = None
    /\ req' = None
    /\ sent' = None
    /\ nSent' = 0
    /\ resp' = "none"
    /\ text' = <<>>
    /\ idx' = 0
    /\ output' = <<>>
    /\ UNCHANGED <<mergeVars, extVars>>

\* while names_needed: the next ai.gen_monsters / ai.gen_items call
CliLoopCall ==
    /\ pc = "loop"
    /\ names_needed # {}
    /\ \E p \in Prompts : EnterGateway(Request(p, NoneStr))
    /\ UNCHANGED <<op, backend, outcome, error, names_needed, produced,
                   mergeVars, extVars>>

\* while names_needed: the loop ends and the command prints its result
CliLoopExit ==
    /\ pc = "loop"
    /\ names_needed = {}
    /\ pc' = "done"
    /\ outcome' = "returned"
    /\ UNCHANGED <<op, backend, orig, req, sent, nSent, resp, text, idx,
                   output, error, names_needed, produced, mergeVars, extVars>>

\* ai.py 98-100: generate_content raises ResourceExhausted; the gateway logs
\* the error and sleeps one second
GatewayRateLimited ==
    /\ pc = "gateway"
    /\ "ResourceExhausted" \in Answers(backend)
    /\ sent' = req
    /\ nSent' = Min(nSent + 1, MaxCount)
    /\ resp' = "ResourceExhausted"
    /\ pc' = "sleep"
    /\ UNCHANGED <<op, backend, orig, req, text, idx, output, outcome, error,
                   names_needed, produced, mergeVars, extVars>>

\* ai.py 101: after the sleep the gateway calls itself
GatewayRetry ==
    /\ pc = "sleep"
    /\ req' = RetryRequest(req)
    /\ pc' = "gateway"
    /\ UNCHANGED <<op, backend, orig, sent, nSent, resp, text, idx, output,
                   outcome, error, names_needed, produced, mergeVars, extVars>>

\* the backend answers and reading the answer raises: the exception leaves
\* ask_google_vertex_ai and ask_google; ask_google_big_prompt, gen_* and the
\* command-line loops have no handler around the call
GatewayRaise ==
    /\ pc = "gateway"
    /\ \E answer \in Answers(backend) \ {"ResourceExhausted"} :
        /\ ReadCandidate(answer) # "none"
        /\ resp' = answer
        /\ IF GatewayCallInsideTry /\ op # BigPrompt
           THEN /\ pc' = "caller"
                /\ UNCHANGED <<outcome, error>>
           ELSE Raise(ReadCandidate(answer))
    /\ sent' = req
    /\ nSent' = Min(nSent + 1, MaxCount)
    /\ UNCHANGED <<op, backend, orig, req, text, idx, output, names_needed,
                   produced, mergeVars, extVars>>

\* the backend answers with text: ask_google_structured splits it into
\* lines, ask_google_big_prompt parses it whole
GatewayReturn ==
    /\ pc = "gateway"
    /\ \E answer \in Answers(backend) \ {"ResourceExhausted"} :
        /\ ReadCandidate(answer) = "none"
        /\ resp' = answer
    /\ \E n \in 1..(IF op = BigPrompt THEN 1 ELSE MaxLines) :
       \E t \in TextsOf(backend, n) : text' = t
    /\ pc' = IF op = BigPrompt THEN "parse" ELSE "extract"
    /\ sent' = req
    /\ nSent' = Min(nSent + 1, MaxCount)
    /\ idx' = 0
    /\ output' = <<>>
    /\ UNCHANGED <<op, backend, orig, req, outcome, error, names_needed,
                   produced, mergeVars, extVars>>

\* ai.py 157-163: one iteration of the loop over the lines; a line's error is
\* caught and logged, a record that validates is appended
ExtractLine ==
    /\ pc = "extract"
    /\ idx < Len(text)
    /\ LET line == text[idx + 1]
           exc == LineError(line)
       IN  IF exc = "none"
           THEN /\ output' = Append(output, Record(line))
                /\ idx' = idx + 1
                /\ UNCHANGED <<pc, outcome, error>>
           ELSE IF CaughtByLineHandler(exc)
           THEN /\ idx' = idx + 1
                /\ UNCHANGED <<pc, outcome, error, output>>
           ELSE /\ Raise(exc)
                /\ UNCHANGED <<idx, output>>
    /\ UNCHANGED <<op, backend, orig, req, sent, nSent, resp, text,
                   names_needed, produced, mergeVars, extVars>>

\* ai.py 164: return output
ExtractReturn ==
    /\ pc = "extract"
    /\ idx = Len(text)
    /\ pc' = "caller"
    /\ UNCHANGED <<op, backend, orig, req, sent, nSent, resp, text, idx,
                   output, outcome, error, names_needed, produced, mergeVars, extVars>>

\* gen_setting_desc, gen_boss, craft: ask_google_structured(...)[0]
CallerIndex ==
    /\ pc = "caller"
    /\ op \in IndexingCallers
    /\ IF first_output(output) = "none"
       THEN /\ pc' = "done"
            /\ outcome' = "returned"
            /\ UNCHANGED error
       ELSE Raise(first_output(output))
    /\ UNCHANGED <<op, backend, orig, req, sent, nSent, resp, text, idx,
                   output, names_needed, produced, mergeVars, extVars>>

\* gen_areas, gen_monsters, gen_items, gen_characters: return the list
CallerList ==
    /\ pc = "caller"
    /\ op \in ListCallers
    /\ pc' = "done"
    /\ outcome' = "returned"
    /\ UNCHANGED <<op, backend, orig, req, sent, nSent, resp, text, idx,
                   output, error, names_needed, produced, mergeVars, extVars>>

\* main.py 65-68, 90-93: every returned record is appended to the result and
\* its name removed from names_needed
CliConsume ==
    /\ pc = "caller"
    /\ op \in CliOps
    /\ names_needed' = names_needed \ {output[i].name : i \in 1..Len(output)}
    /\ produced' = Min(produced + Len(output), MaxCount)
    /\ pc' = "loop"
    /\ UNCHANGED <<op, backend, orig, req, sent, nSent, resp, text, idx,
                   output, outcome, error, mergeVars, extVars>>

\* ai.py 189-194: json.loads and AiAction(**response_json) on the whole
\* text; an error is logged and raised again
BigPromptParse ==
    /\ pc = "parse"
    /\ IF LineError(text[1]) = "none"
       THEN /\ pc' = "done"
            /\ outcome' = "returned"
            /\ UNCHANGED error
       ELSE Raise(LineError(text[1]))
    /\ UNCHANGED <<op, backend, orig, req, sent, nSent, resp, text, idx,
                   output, names_needed, produced, mergeVars, extVars>>

SvcNext ==
    \/ CallStructured
    \/ CallBigPrompt
    \/ CliStart
    \/ CliLoopCall
    \/ CliLoopExit
    \/ GatewayRateLimited
    \/ GatewayRetry
    \/ GatewayRaise
    \/ GatewayReturn
    \/ ExtractLine
    \/ ExtractReturn
    \/ CallerIndex
    \/ CallerList
    \/ CliConsume
    \/ BigPromptParse

SvcSpec == SvcInit /\ [][SvcNext]_vars

\* one thread of control runs the call: it always takes its next step
FairSvcSpec == SvcSpec /\ WF_vars(SvcNext)

-----------------------------------------------------------------------------
(* Content that refers to other content: areas name their monsters and    *)
(* items, characters name their starting items (game_types.py 111-140)    *)

AreaNameSeq == <<"A1", "A2", "A3", "A4">>
MonsterNames == {"m1", "m2"}

\* the reference lists of an Area the model uses
AreaRefs ==
    {[enemies |-> <<>>, equipment |-> <<>>, melee_weapons |-> <<>>,
      ranged_weapons |-> <<>>, food |-> <<>>],
     [enemies |-> <<"m1">>, equipment |-> <<"i1">>, melee_weapons |-> <<>>,
      ranged_weapons |-> <<>>, food |-> <<>>],
     [enemies |-> <<"m1", "m2">>, equipment |-> <<>>,
      melee_weapons |-> <<"i1">>, ranged_weapons |-> <<>>,
      food |-> <<"i2", "i1">>]}

\* Area(name, blurb, mapgen, enemies, equipment, melee_weapons,
\* ranged_weapons, food), the map generation tag left out
AreaOf(name, refs) ==
    [name |-> name, blurb |-> "d1", enemies |-> refs.enemies,
     equipment |-> refs.equipment, melee_weapons |-> refs.melee_weapons,
     ranged_weapons |-> refs.ranged_weapons, food |-> refs.food]

StartingItems == {<<>>, <<"i2">>}

\* Character(name, backstory, starting_items)
CharacterOf(name, starting_items) ==
    [name |-> name, backstory |-> "d1", starting_items |-> starting_items]

MonsterOf(name) == [name |-> name, description |-> "d1"]
ItemOf(name) == [name |-> name, description |-> "d1"]
TheBoss == [name |-> "a", description |-> "d1"]

\* AiAction(): every field None
NoAction ==
    [set_setting_desc |-> NoneStr, add_area |-> None,
     add_monster_def |-> None, add_item_def |-> None, set_boss |-> None,
     add_character |-> None]

SetSettingDesc(s) == [NoAction EXCEPT !.set_setting_desc = s]
AddArea(a) == [NoAction EXCEPT !.add_area = a]
AddMonsterDef(m) == [NoAction EXCEPT !.add_monster_def = m]
AddItemDef(i) == [NoAction EXCEPT !.add_item_def = i]
SetBoss(b) == [NoAction EXCEPT !.set_boss = b]
AddCharacter(c) == [NoAction EXCEPT !.add_character = c]

-----------------------------------------------------------------------------
(* Requirement analyzer: missing_requirements(state)                       *)

RequiredAreas == 3
RequiredCharacters == 3

Requirement(kind, name) == [kind |-> kind, name |-> name]

\* the concatenation of the first n sequences of ss
RECURSIVE FlattenTo(_, _)
FlattenTo(ss, n) == IF n = 0 THEN <<>> ELSE FlattenTo(ss, n - 1) \o ss[n]

\* the concatenation of the sequences of a sequence
Flatten(ss) == CHOOSE r \in {FlattenTo(s, Len(s)) : s \in {ss}} : TRUE

\* a variant: every occurrence is kept
Dedup_none(s) == s

\* the first occurrence of each element of s only
FirstOccurrences(s) ==
    LET tagged == [i \in 1..Len(s) |-> <<i, s[i]>>]
        firsts == SelectSeq(tagged,
                            LAMBDA p : \A j \in 1..(p[1] - 1) : s[j] # p[2])
    IN  [i \in 1..Len(firsts) |-> firsts[i][2]]

\* s with the first occurrence of each element only
Dedup(s) == CHOOSE r \in {FirstOccurrences(v) : v \in {s}} : TRUE

\* list holds an entry named name
Defined(list, name) == \E i \in 1..Len(list) : list[i].name = name

\* the enemy names of every area, area by area
EnemyRefs(state) ==
    Flatten([i \in 1..Len(state.areas) |-> state.areas[i].enemies])

\* the item names of every area's equipment, melee, ranged and food lists,
\* then of every character's starting items
ItemRefs(state) ==
    Flatten([i \in 1..Len(state.areas) |->
                state.areas[i].equipment \o state.areas[i].melee_weapons
                \o state.areas[i].ranged_weapons \o state.areas[i].food])
    \o Flatten([i \in 1..Len(state.characters) |->
                    state.characters[i].starting_items])

MissingMonsters(state) ==
    SelectSeq(Dedup(EnemyRefs(state)),
              LAMBDA n : ~Defined(state.monsters, n))

MissingItems(state) ==
    SelectSeq(Dedup(ItemRefs(state)), LAMBDA n : ~Defined(state.items, n))

\* the requirements state does not meet, in the order of the six checks
Requirements(state, monsters, items) ==
    (IF state.setting_desc = NoneStr
     THEN <<Requirement("setting_desc", "-")>> ELSE <<>>)
    \o (IF Len(state.areas) < RequiredAreas
        THEN <<Requirement("areas", "-")>> ELSE <<>>)
    \o [i \in 1..Len(monsters) |-> Requirement("monster", monsters[i])]
    \o [i \in 1..Len(items) |-> Requirement("item", items[i])]
    \o (IF state.boss = None THEN <<Requirement("boss", "-")>> ELSE <<>>)
    \o (IF Len(state.characters) < RequiredCharacters
        THEN <<Requirement("characters", "-")>> ELSE <<>>)

missing_requirements(state) ==
    CHOOSE r \in {Requirements(s, m, i) :
                    s \in {state}, m \in {MissingMonsters(state)},
                    i \in {MissingItems(state)}} : TRUE

\* requirement kind is among the requirements reqs
Asks(reqs, kind) == \E i \in 1..Len(reqs) : reqs[i].kind = kind

\* the names of the requirements of one kind, in their order
NamesAsked(reqs, kind) ==
    LET sel == SelectSeq(reqs, LAMBDA r : r.kind = kind)
    IN  [i \in 1..Len(sel) |-> sel[i].name]

\* for action in batch: state.apply_action(action)
\* (the state after each operation is bound as a value, s, so that it is
\* computed once)
RECURSIVE ApplyFrom(_, _, _)
ApplyFrom(state, batch, i) ==
    IF i > Len(batch) THEN state
    ELSE CHOOSE r \in {ApplyFrom(s, batch, i + 1) :
                        s \in {apply_action(state, batch[i])}} : TRUE

ApplyAll(state, batch) ==
    CHOOSE r \in {ApplyFrom(state, b, 1) : b \in {batch}} : TRUE

-----------------------------------------------------------------------------
(* Convergence loop: gen_anything(instructions, state)                     *)

\* the counter rounds stops counting here
MaxRounds == 7

\* The patched backend call. A "cooperative" one returns operations that
\* satisfy what the instruction lists; what it puts into them is its own
\* choice: the references of its areas (refs), whether it gives one area
\* more than asked (extra), the starting items of its characters, and
\* whether it defines what its own areas and characters refer to in the
\* same batch (defs) or leaves that to the next request. An "empty" one
\* returns an empty batch.
EmptyStub == [mode |-> "empty"]
CooperativeStubs ==
    [mode : {"cooperative"},
     refs : [1..(RequiredAreas + 1) -> AreaRefs],
     extra : {0, 1},
     starting_items : [1..RequiredCharacters -> StartingItems],
     defs : BOOLEAN]
Stubs == CooperativeStubs \cup {EmptyStub}

\* what "Generate everything" asks of a state that holds only a theme
SeedInstruction == missing_requirements(NewGameState("Cyberpunk"))

\* a definition for every monster and item that the requirements reqs name
DefsAsked(reqs) ==
    [i \in 1..Len(NamesAsked(reqs, "monster")) |->
        AddMonsterDef(MonsterOf(NamesAsked(reqs, "monster")[i]))]
    \o [i \in 1..Len(NamesAsked(reqs, "item")) |->
            AddItemDef(ItemOf(NamesAsked(reqs, "item")[i]))]

\* the definitions of every monster and item that state refers to and lacks
DefsFor(state) ==
    CHOOSE d \in {DefsAsked(r) : r \in {missing_requirements(state)}} : TRUE

\* The operations a cooperative backend returns for the requirements reqs:
\* a setting description, the areas the state lacks, a definition for each
\* name asked, a boss, the characters the state lacks.
CoopBase(s, reqs, state) ==
    LET lacking == RequiredAreas - Len(state.areas) + s.extra
        chars == RequiredCharacters - Len(state.characters)
        monsters == NamesAsked(reqs, "monster")
        items == NamesAsked(reqs, "item")
    IN  (IF Asks(reqs, "setting_desc") THEN <<SetSettingDesc("s1")>>
         ELSE <<>>)
        \o (IF Asks(reqs, "areas")
            THEN [i \in 1..lacking |->
                    AddArea(AreaOf(AreaNameSeq[Len(state.areas) + i],
                                   s.refs[i]))]
            ELSE <<>>)
        \o [i \in 1..Len(monsters) |-> AddMonsterDef(MonsterOf(monsters[i]))]
        \o [i \in 1..Len(items) |-> AddItemDef(ItemOf(items[i]))]
        \o (IF Asks(reqs, "boss") THEN <<SetBoss(TheBoss)>> ELSE <<>>)
        \o (IF Asks(reqs, "characters")
            THEN [i \in 1..chars |->
                    AddCharacter(CharacterOf("a", s.starting_items[i]))]
            ELSE <<>>)

\* the batch the backend returns for the requirements reqs
StubBatch(s, reqs, state) ==
    IF s.mode = "empty" THEN <<>>
    ELSE CHOOSE batch \in
            {IF s.defs THEN b \o DefsFor(ApplyAll(state, b)) ELSE b :
                b \in {CoopBase(s, reqs, state)}} : TRUE

LoopInit ==
    /\ gs = NewGameState("Cyberpunk")
    /\ distinct0 = TRUE
    /\ lastAct = None
    /\ twice = FALSE
    /\ SvcIdle
    /\ ExtIdle

\* the caller installs the backend the requests will reach, as test_ai.py
\* does with its patch of the backend call
PatchBackend ==
    /\ pc = "idle"
    /\ stub = NoStub
    /\ stub' \in Stubs
    /\ UNCHANGED <<mergeVars, svcVars, instruction, rounds, batchVars,
                   streamVars, httpVars,
                   valVars>>

\* one big-prompt request for the requirements reqs; every operation of the
\* batch it returns is applied to the state
Request_and_apply(reqs) ==
    /\ \E r \in {reqs} :
        /\ instruction' = r
        /\ \E b \in {StubBatch(stub, r, gs)} :
            /\ gs' = ApplyAll(gs, b)
            /\ lastBatch' = b
    /\ rounds' = Min(rounds + 1, MaxRounds)

\* Seed -> Iterating: the seed instruction "Generate everything"
SeedRequest ==
    /\ pc = "idle"
    /\ op = "none"
    /\ stub # NoStub
    /\ op' = "gen_anything"
    /\ pc' = "iterating"
    /\ Request_and_apply(SeedInstruction)
    /\ UNCHANGED <<distinct0, lastAct, twice, backend, orig, req, sent, nSent,
                   resp, text, idx, output, outcome, error, names_needed,
                   produced, stub, fullBatch, pending, streamVars,
                   httpVars,
                   valVars>>

\* Iterating -> Iterating: requirements remain, the next request lists them
IterateRequest ==
    /\ op = "gen_anything"
    /\ pc = "iterating"
    /\ missing_requirements(gs) # <<>>
    /\ Request_and_apply(missing_requirements(gs))
    /\ UNCHANGED <<distinct0, lastAct, twice, op, pc, backend, orig, req,
                   sent, nSent, resp, text, idx, output, outcome, error,
                   names_needed, produced, stub, fullBatch, pending,
                   streamVars, httpVars,
                   valVars>>

\* Iterating -> Converged: no requirement remains and gen_anything returns
Converge ==
    /\ op = "gen_anything"
    /\ pc = "iterating"
    /\ missing_requirements(gs) = <<>>
    /\ pc' = "done"
    /\ outcome' = "returned"
    /\ UNCHANGED <<mergeVars, op, backend, orig, req, sent, nSent, resp,
                   text, idx, output, error, names_needed, produced,
                   extVars>>

LoopNext ==
    \/ PatchBackend
    \/ SeedRequest
    \/ IterateRequest
    \/ Converge

LoopSpec == LoopInit /\ [][LoopNext]_vars

\* gen_anything runs in the thread of its caller, which always takes its
\* next step
FairLoopSpec == LoopSpec /\ WF_vars(LoopNext)

-----------------------------------------------------------------------------
(* BatchSpec: the operations of one batch, applied a few at a time and in  *)
(* any order to a state that holds only a theme                            *)

\* the number of operations one step applies, at most
MaxBatch == 2

\* the bag of the elements of a sequence
BagOfSeq(seq) ==
    [o \in {seq[i] : i \in 1..Len(seq)} |->
        Cardinality({i \in 1..Len(seq) : seq[i] = o})]

\* The batches: what a cooperative backend answers to "Generate everything",
\* definitions included, when all its areas refer to one monster and one
\* item and its characters start with that item, or when its first area
\* refers to two monsters and twice to one item; the first of these batches
\* also with one more area, which replaces the first area and refers to a
\* monster that no operation defines.
BatchStubs ==
    {[mode |-> "cooperative", extra |-> 0, defs |-> TRUE,
      refs |-> [i \in 1..(RequiredAreas + 1) |->
                    [enemies |-> <<"m1">>, equipment |-> <<"i1">>,
                     melee_weapons |-> <<>>, ranged_weapons |-> <<>>,
                     food |-> <<>>]],
      starting_items |-> [i \in 1..RequiredCharacters |-> <<"i1">>]],
     [mode |-> "cooperative", extra |-> 0, defs |-> TRUE,
      refs |-> [i \in 1..(RequiredAreas + 1) |->
                    IF i = 1
                    THEN [enemies |-> <<"m1", "m2">>, equipment |-> <<>>,
                          melee_weapons |-> <<"i1">>, ranged_weapons |-> <<>>,
                          food |-> <<"i1">>]
                    ELSE [enemies |-> <<>>, equipment |-> <<>>,
                          melee_weapons |-> <<>>, ranged_weapons |-> <<>>,
                          food |-> <<>>]],
      starting_items |-> [i \in 1..RequiredCharacters |-> <<>>]]}

ExtraArea ==
    AddArea(AreaOf("A1", [enemies |-> <<"m2">>, equipment |-> <<>>,
                          melee_weapons |-> <<>>, ranged_weapons |-> <<>>,
                          food |-> <<>>]))

Batches ==
    {StubBatch(s, SeedInstruction, NewGameState("Cyberpunk")) :
        s \in BatchStubs}
    \cup {Append(StubBatch(s, SeedInstruction, NewGameState("Cyberpunk")),
                 ExtraArea) :
            s \in {t \in BatchStubs : t.starting_items[1] # <<>>}}

BatchInit ==
    /\ gs = NewGameState("Cyberpunk")
    /\ distinct0 = TRUE
    /\ lastAct = None
    /\ twice = FALSE
    /\ SvcIdle
    /\ LoopIdle
    /\ \E b \in Batches :
        /\ fullBatch = BagOfSeq(b)
        /\ pending = BagOfSeq(b)
    /\ lastBatch = <<>>
    /\ StreamIdle
    /\ HttpIdle
    /\ ValIdle

\* the sequences of at most MaxBatch operations taken from bag
SubBatches(bag) ==
    UNION {{b \in [1..n -> BagToSet(bag)] : BagOfSeq(b) \sqsubseteq bag} :
            n \in 1..MaxBatch}

\* the next operations of the batch arrive and are applied, one by one
ApplyPending ==
    /\ pending # EmptyBag
    /\ \E b \in SubBatches(pending) :
        /\ gs' = ApplyAll(gs, b)
        /\ pending' = pending (-) BagOfSeq(b)
    /\ UNCHANGED <<distinct0, lastAct, twice, svcVars, loopVars, fullBatch,
                   lastBatch, streamVars, httpVars,
                   valVars>>

BatchNext == ApplyPending

BatchSpec == BatchInit /\ [][BatchNext]_vars

-----------------------------------------------------------------------------
(* Streaming variant: gen_actions over ask_google_stream_actions *)

\* the operations a streamed line can carry
StreamActions ==
    {SetSettingDesc("s1"), SetSettingDesc("s2"), AddMonsterDef(MonsterOf("m1"))}

\* One completed line of the streamed response: malformed as a line of a
\* response text can be, or an EditOperation that validates.
StreamLine ==
    [kind : {"blank", "badjson", "nonobject", "invalid"}, action : {NoAction}]
        \cup [kind : {"valid"}, action : StreamActions]

\* every response of at most MaxLines completed lines
Streams == UNION {ListsOf(StreamLine, n) : n \in 0..MaxLines}

\* a variant: the generator yields the first extracted action again
NextYield_first(out, n) == out[1]

\* gen_actions: `for action in ask_google_stream_actions(...): yield action`,
\* the action extracted after the n it has yielded
NextYield(out, n) == out[n + 1]

StreamInit ==
    /\ gs = NewGameState("Cyberpunk")
    /\ distinct0 = TRUE
    /\ lastAct = None
    /\ twice = FALSE
    /\ op = "none"
    /\ pc = "idle"
    /\ backend = "any"
    /\ orig = None
    /\ req = None
    /\ sent = None
    /\ nSent = 0
    /\ resp = "none"
    /\ text \in Streams
    /\ idx = 0
    /\ output = <<>>
    /\ outcome = "pending"
    /\ error = "none"
    /\ names_needed = {}
    /\ produced = 0
    /\ ExtIdle

\* the caller starts iterating gen_actions("Generate everything", state)
GenActionsCall ==
    /\ pc = "idle"
    /\ op = "none"
    /\ op' = "gen_actions"
    /\ pc' = "streaming"
    /\ UNCHANGED <<mergeVars, backend, orig, req, sent, nSent, resp, text, idx,
                   output, outcome, error, names_needed, produced, extVars>>

\* the next completed line is parsed and validated on its own: an operation
\* that validates is extracted, an error is logged and the line dropped
StreamExtractLine ==
    /\ op = "gen_actions"
    /\ pc = "streaming"
    /\ idx < Len(text)
    /\ idx' = idx + 1
    /\ LET line == text[idx + 1]
           exc == LineError(line)
       IN  IF exc = "none"
           THEN /\ output' = Append(output, line.action)
                /\ pc' = "yield"
                /\ UNCHANGED <<outcome, error, last_error>>
           ELSE IF CaughtByLineHandler(exc)
           THEN /\ last_error' = exc
                /\ UNCHANGED <<pc, outcome, error, output>>
           ELSE /\ Raise(exc)
                /\ UNCHANGED <<output, last_error>>
    /\ UNCHANGED <<mergeVars, op, backend, orig, req, sent, nSent, resp, text,
                   names_needed, produced, loopVars, batchVars, yielded,
                   httpVars,
                   valVars>>

\* gen_actions yields the extracted action to its caller, whose loop body
\* applies it to the state before the next line is read
YieldAction ==
    /\ op = "gen_actions"
    /\ pc = "yield"
    /\ \E a \in {NextYield(output, Len(yielded))} :
        /\ yielded' = Append(yielded, a)
        /\ gs' = apply_action(gs, a)
    /\ pc' = "streaming"
    /\ UNCHANGED <<distinct0, lastAct, twice, op, backend, orig, req, sent,
                   nSent, resp, text, idx, output, outcome, error,
                   names_needed, produced, loopVars, batchVars, last_error,
                   httpVars,
                   valVars>>

\* the stream ends: with nothing extracted the last error, if any, is raised
StreamEnd ==
    /\ op = "gen_actions"
    /\ pc = "streaming"
    /\ idx = Len(text)
    /\ IF output = <<>> /\ last_error # "none"
       THEN Raise(last_error)
       ELSE /\ pc' = "done"
            /\ outcome' = "returned"
            /\ UNCHANGED error
    /\ UNCHANGED <<mergeVars, op, backend, orig, req, sent, nSent, resp, text,
                   idx, output, names_needed, produced, extVars>>

StreamNext ==
    \/ GenActionsCall
    \/ StreamExtractLine
    \/ YieldAction
    \/ StreamEnd

StreamSpec == StreamInit /\ [][StreamNext]_vars

-----------------------------------------------------------------------------
(* HTTP front door: app.py and v0/app.py *)

\* app.py 30, v0/app.py 11
PREGEN_THEME == "pregen"

\* app.py 43-50: the legacy endpoints, served by v0/app.py with v0/ai.py
V0Endpoints ==
    {"get_setting", "craft", "get_areas", "get_boss", "monsters", "items"}

\* app.py 53-142
V1Endpoints ==
    {"v1_get_setting", "v1_craft", "v1_get_areas", "v1_get_boss",
     "v1_monsters", "v1_items", "v1_anything"}

Endpoints == V0Endpoints \cup V1Endpoints

RequestThemes == {PREGEN_THEME, "Cyberpunk"}

\* What the request body is like for the endpoint that reads it: "ok" holds
\* every key the handler reads, with usable values; "missing_key" lacks a key
\* other than the theme; "bad_item" is a craft body whose item1 lacks level,
\* type or kind; "missing_state", "invalid_state" and "missing_ask" are
\* bodies of the anything endpoint. The setting endpoints take the theme
\* from the URL and read no body.
BodiesOf(ep) ==
    CASE ep \in {"get_setting", "v1_get_setting"} -> {"ok"}
      [] ep \in {"craft", "v1_craft"} -> {"ok", "missing_key", "bad_item"}
      [] ep = "v1_anything" ->
            {"ok", "missing_state", "invalid_state", "missing_ask"}
      [] OTHER -> {"ok", "missing_key"}

\* a variant: the anything endpoint without the validation of its state
BodyError_unvalidated(ep, b) ==
    CASE b \in {"missing_key", "missing_state", "missing_ask"} -> "KeyError"
      [] OTHER -> "none"

\* The exception raised by what the handler does before it tests the theme:
\* get_json()[key] for every key, and in v1_anything (app.py 135-137) the
\* construction of GameState from the state (136) between the two reads.
BodyError(ep, b) ==
    CASE b \in {"missing_key", "missing_state", "missing_ask"} -> "KeyError"
      [] b = "invalid_state" -> "ValidationError"
      [] OTHER -> "none"

\* a variant: no handler tests the theme
IsPregen_never(t) == FALSE

\* `if theme == PREGEN_THEME:`
IsPregen(t) == t = PREGEN_THEME

\* app.py 69-76, v0/app.py 29-36: the canned craft answer reads level, type
\* and kind of item1; the other canned answers are read from files
PregenError(ep, b) ==
    IF ep \in {"craft", "v1_craft"} /\ b = "bad_item" THEN "KeyError"
    ELSE "none"

\* v0/ai.py 205-233: the legacy gateway has no handler for ResourceExhausted
\* and none for a SAFETY finish; parts[0] of a blocked candidate and
\* candidates[0] of an empty list raise IndexError, logged and re-raised
ReadCandidate_v0(answer) ==
    CASE answer = "ResourceExhausted" -> "ResourceExhausted"
      [] answer \in {"SAFETY", "NoCandidate", "NoPart"} -> "IndexError"
      [] OTHER -> "none"

\* the exceptions the generation function can raise once the gateway has
\* returned text: [0] of an empty output list (gen_setting_desc, gen_boss,
\* craft), the parse or validation of the big-prompt answer (anything)
PostErrors(ep) ==
    CASE ep \in {"get_setting", "v1_get_setting", "get_boss", "v1_get_boss",
                 "craft", "v1_craft"} -> {"none", "IndexError"}
      [] ep = "v1_anything" -> {"none", "JSONDecodeError", "ValidationError"}
      [] OTHER -> {"none"}

\* a variant: no handler is registered for AiError
ai_error_none(exc) == FALSE

\* app.py 37-39: @app.errorhandler(ai.AiError) answers with the reason
ai_error(exc) == exc = "AiError"

HttpInit ==
    /\ gs = NewGameState("Cyberpunk")
    /\ distinct0 = TRUE
    /\ lastAct = None
    /\ twice = FALSE
    /\ SvcIdle
    /\ ExtIdle

\* a request arrives at one of the endpoints
Receive ==
    /\ pc = "idle"
    /\ endpoint = "none"
    /\ \E ep \in Endpoints :
        /\ endpoint' = ep
        /\ body' \in BodiesOf(ep)
    /\ req_theme' \in RequestThemes
    /\ pc' = "handler"
    /\ UNCHANGED <<mergeVars, op, backend, orig, req, sent, nSent, resp, text,
                   idx, output, outcome, error, names_needed, produced,
                   loopVars, batchVars, streamVars, calls, status, payload,
                   valVars>>

\* the handler reads the body; an exception leaves the handler
ReadBody ==
    /\ pc = "handler"
    /\ IF BodyError(endpoint, body) # "none"
       THEN /\ pc' = "raised"
            /\ error' = BodyError(endpoint, body)
       ELSE /\ pc' = "dispatch"
            /\ UNCHANGED error
    /\ UNCHANGED <<mergeVars, op, backend, orig, req, sent, nSent, resp, text,
                   idx, output, outcome, names_needed, produced, extVars>>

\* theme == PREGEN_THEME: the canned answer, no generation
Pregen ==
    /\ pc = "dispatch"
    /\ IsPregen(req_theme)
    /\ IF PregenError(endpoint, body) # "none"
       THEN /\ pc' = "raised"
            /\ error' = PregenError(endpoint, body)
            /\ UNCHANGED <<outcome, status, payload>>
       ELSE /\ pc' = "done"
            /\ outcome' = "returned"
            /\ status' = 200
            /\ payload' = "fixture"
            /\ UNCHANGED error
    /\ UNCHANGED <<mergeVars, op, backend, orig, req, sent, nSent, resp, text,
                   idx, output, names_needed, produced, loopVars, batchVars,
                   streamVars, endpoint, req_theme, body, calls,
                   valVars>>

\* else: the handler calls its generation function
Generate ==
    /\ pc = "dispatch"
    /\ ~IsPregen(req_theme)
    /\ pc' = "gen"
    /\ UNCHANGED <<mergeVars, op, backend, orig, req, sent, nSent, resp, text,
                   idx, output, outcome, error, names_needed, produced,
                   extVars>>

\* One call of the model gateway by the generation function. The gateway
\* of ai.py calls again on ResourceExhausted and raises AiError on a SAFETY
\* finish; gen_anything may issue a further request after an answer.
GatewayCall ==
    /\ pc = "gen"
    /\ calls' = Min(calls + 1, MaxCount)
    /\ \E answer \in Responses :
        /\ resp' = answer
        /\ LET exc == IF endpoint \in V0Endpoints
                      THEN ReadCandidate_v0(answer)
                      ELSE ReadCandidate(answer)
           IN  IF answer = "ResourceExhausted" /\ endpoint \in V1Endpoints
               THEN UNCHANGED <<pc, outcome, error, status, payload>>
               ELSE IF exc # "none"
               THEN /\ pc' = "raised"
                    /\ error' = exc
                    /\ UNCHANGED <<outcome, status, payload>>
               ELSE \E post \in PostErrors(endpoint) :
                    IF post # "none"
                    THEN /\ pc' = "raised"
                         /\ error' = post
                         /\ UNCHANGED <<outcome, status, payload>>
                    ELSE \/ /\ pc' = "done"
                            /\ outcome' = "returned"
                            /\ status' = 200
                            /\ payload' = "generated"
                            /\ UNCHANGED error
                         \/ /\ endpoint = "v1_anything"
                            /\ UNCHANGED <<pc, outcome, error, status,
                                           payload>>
    /\ UNCHANGED <<mergeVars, op, backend, orig, req, sent, nSent, text, idx,
                   output, names_needed, produced, loopVars, batchVars,
                   streamVars, endpoint, req_theme, body,
                   valVars>>

\* An exception left the handler: the handler registered for AiError
\* answers 500 with {"error": str(e)}; any other exception gets the
\* framework's 500 answer.
ErrorResponse ==
    /\ pc = "raised"
    /\ pc' = "done"
    /\ outcome' = "raised"
    /\ status' = 500
    /\ payload' = IF ai_error(error) THEN "error_reason" ELSE "internal_error"
    /\ UNCHANGED <<mergeVars, op, backend, orig, req, sent, nSent, resp, text,
                   idx, output, error, names_needed, produced, loopVars,
                   batchVars, streamVars, endpoint, req_theme, body, calls,
                   valVars>>

HttpNext ==
    \/ Receive
    \/ ReadBody
    \/ Pregen
    \/ Generate
    \/ GatewayCall
    \/ ErrorResponse

HttpSpec == HttpInit /\ [][HttpNext]_vars

-----------------------------------------------------------------------------
(* Validation of the enum-typed fields: game_types.py *)

\* some members of Color (game_types.py 7-28), PokemonType (42-60) and
\* ItemKind (122-126), and a value that is a member of none of them
ColorValues == {"lightgray", "red"}
PokemonTypeValues == {"normal", "fire"}
ItemKindValues == {"armor", "food"}
OutOfVocabulary == {"bogus"}

\* pydantic's own validation of an enum-typed field: the member for a value
\* of the enum, a validation error for any other value
handler(values, v) == IF v \in values THEN v ELSE "ValidationError"

\* game_types.py 31-36: Color(v) raises ValueError for a value that is no
\* color, v becomes "lightgray", and the handler validates v
fix_color(v) ==
    handler(ColorValues, IF v \in ColorValues THEN v ELSE "lightgray")

\* game_types.py 63-68: likewise with "normal"
fix_type(v) ==
    handler(PokemonTypeValues,
            IF v \in PokemonTypeValues THEN v ELSE "normal")

\* type2: PokemonType | None = None; None validates as None
fix_optional_type(v) == IF v = NoneStr THEN NoneStr ELSE fix_type(v)

\* the inputs for the enum-typed fields of Monster (85-88) and Item (131-134)
RawMonster ==
    [model : {"Monster"},
     color : ColorValues \cup OutOfVocabulary,
     type1 : PokemonTypeValues \cup OutOfVocabulary,
     type2 : PokemonTypeValues \cup OutOfVocabulary \cup {NoneStr},
     attack_type : PokemonTypeValues \cup OutOfVocabulary]

RawItem ==
    [model : {"Item"},
     type : PokemonTypeValues \cup OutOfVocabulary,
     kind : ItemKindValues \cup OutOfVocabulary]

\* the model built from fields, or the rejection when the validation of a
\* field failed
Built(fields) ==
    IF \E f \in DOMAIN fields : fields[f] = "ValidationError"
    THEN [status |-> "rejected"]
    ELSE [status |-> "ok", value |-> fields]

\* Monster(**r): color is a Color, type1 and attack_type a PokemonType, type2
\* a PokemonType or None, each with its wrap validator
validate_monster(r) ==
    Built([color |-> fix_color(r.color),
           type1 |-> fix_type(r.type1),
           type2 |-> fix_optional_type(r.type2),
           attack_type |-> fix_type(r.attack_type)])

\* Item(**r): type is a PokemonType with its wrap validator, kind is an
\* ItemKind, a plain enum with no wrap validator (122-134)
validate_item(r) ==
    Built([type |-> fix_type(r.type),
           kind |-> handler(ItemKindValues, r.kind)])

ValInit ==
    /\ gs = NewGameState("Cyberpunk")
    /\ distinct0 = TRUE
    /\ lastAct = None
    /\ twice = FALSE
    /\ SvcIdle
    /\ LoopIdle
    /\ BatchIdle
    /\ StreamIdle
    /\ HttpIdle
    /\ raw \in RawMonster \cup RawItem
    /\ validated = Unvalidated

\* game_types.Monster(**raw)
BuildMonster ==
    /\ validated = Unvalidated
    /\ raw.model = "Monster"
    /\ validated' = validate_monster(raw)
    /\ UNCHANGED <<mergeVars, svcVars, loopVars, batchVars, streamVars,
                   httpVars, raw>>

\* game_types.Item(**raw)
BuildItem ==
    /\ validated = Unvalidated
    /\ raw.model = "Item"
    /\ validated' = validate_item(raw)
    /\ UNCHANGED <<mergeVars, svcVars, loopVars, batchVars, streamVars,
                   httpVars, raw>>

ValNext == BuildMonster \/ BuildItem

ValSpec == ValInit /\ [][ValNext]_vars

-----------------------------------------------------------------------------
(* MergeSpec: ask_google_json_merge, one call *)

JsonMerge == "ask_google_json_merge"

\* the states ask_google_json_merge is called with
MergeStates ==
    {NewGameState("Cyberpunk"),
     [NewGameState("Cyberpunk") EXCEPT !.setting_desc = "s1"],
     [NewGameState("Cyberpunk") EXCEPT !.monsters = <<MonsterOf("m1")>>],
     [NewGameState("Cyberpunk") EXCEPT !.setting_desc = "s2",
                                       !.monsters = <<MonsterOf("m1")>>]}

MergeInit ==
    /\ gs \in MergeStates
    /\ distinct0 = TRUE
    /\ lastAct = None
    /\ twice = FALSE
    /\ SvcIdle
    /\ ExtIdle

\* ai.py 185-187, 199: ask_google_json_merge calls ask_google_big_prompt,
\* whose prompt holds the dump of the state, and which calls the gateway with
\* the system prompt
JsonMergeCall ==
    /\ pc = "idle"
    /\ op' = JsonMerge
    /\ backend' \in {"any", "rate_limited"}
    /\ EnterGateway(Request(gs, SystemPrompt))
    /\ UNCHANGED <<mergeVars, outcome, error, names_needed, produced, extVars>>

\* reading the backend's answer raises; neither ask_google_big_prompt nor
\* ask_google_json_merge has a handler around the gateway call
MergeGatewayRaise ==
    /\ op = JsonMerge
    /\ pc = "gateway"
    /\ \E answer \in Answers(backend) \ {"ResourceExhausted"} :
        /\ ReadCandidate(answer) # "none"
        /\ resp' = answer
        /\ Raise(ReadCandidate(answer))
    /\ sent' = req
    /\ nSent' = Min(nSent + 1, MaxCount)
    /\ UNCHANGED <<op, backend, orig, req, text, idx, output, names_needed,
                   produced, mergeVars, extVars>>

\* the backend answers with a text, which ask_google_big_prompt parses whole
MergeGatewayReturn ==
    /\ op = JsonMerge
    /\ pc = "gateway"
    /\ \E answer \in Answers(backend) \ {"ResourceExhausted"} :
        /\ ReadCandidate(answer) = "none"
        /\ resp' = answer
    /\ \E line \in StreamLine : text' = <<line>>
    /\ pc' = "parse"
    /\ sent' = req
    /\ nSent' = Min(nSent + 1, MaxCount)
    /\ UNCHANGED <<op, backend, orig, req, idx, output, outcome, error,
                   names_needed, produced, mergeVars, extVars>>

\* ai.py 189-194: json.loads(response_text) and AiAction(**response_json);
\* every exception is logged and raised again
MergeParse ==
    /\ op = JsonMerge
    /\ pc = "parse"
    /\ IF LineError(text[1]) = "none"
       THEN /\ pc' = "apply"
            /\ output' = <<text[1].action>>
            /\ UNCHANGED <<outcome, error>>
       ELSE /\ Raise(LineError(text[1]))
            /\ UNCHANGED output
    /\ UNCHANGED <<op, backend, orig, req, sent, nSent, resp, text, idx,
                   names_needed, produced, mergeVars, extVars>>

\* ai.py 199-201: state.apply_action(output)
MergeApply ==
    /\ op = JsonMerge
    /\ pc = "apply"
    /\ gs' = apply_action(gs, output[1])
    /\ pc' = "done"
    /\ outcome' = "returned"
    /\ UNCHANGED <<distinct0, lastAct, twice, op, backend, orig, req, sent,
                   nSent, resp, text, idx, output, error, names_needed,
                   produced, extVars>>

MergeNext ==
    \/ JsonMergeCall
    \/ GatewayRateLimited
    \/ GatewayRetry
    \/ MergeGatewayRaise
    \/ MergeGatewayReturn
    \/ MergeParse
    \/ MergeApply

MergeSpec == MergeInit /\ [][MergeNext]_vars

-----------------------------------------------------------------------------
(* Claims about apply_action *)

\* the action has exactly one populated field, add_monster_def or add_item_def
MonsterOrItemOnly(a) ==
    /\ Populated(a) = 1
    /\ (a.add_monster_def # None \/ a.add_item_def # None)

\* the action has exactly one populated field, add_area
AreaOnly(a) == Populated(a) = 1 /\ a.add_area # None

\* C1: applying the same add_monster_def (or add_item_def) action a second
\* time in a row leaves the GameState as the first application left it.
C1_MonsterItemIdempotent ==
    [][(twice' /\ MonsterOrItemOnly(lastAct')) => gs' = gs]_vars

\* C2: from a GameState whose area, monster and item lists hold pairwise
\* distinct names, every sequence of apply_action calls leaves the names of
\* each of the three lists pairwise distinct.
C2_NamesStayDistinct == distinct0 => DistinctNames(gs)

\* C3: applying the same add_area action a second time in a row leaves the
\* GameState as the first application left it.
C3_AreaIdempotent == [][(twice' /\ AreaOnly(lastAct')) => gs' = gs]_vars

\* C3's case: an add_area action applied twice in a row, to a state that
\* holds the area's name beside another area.
C3_Witness ==
    /\ twice
    /\ AreaOnly(lastAct)
    /\ Len(gs.areas) = 2
    /\ gs.areas[2] = lastAct.add_area

-----------------------------------------------------------------------------
(* Claims about the gateway, the extraction and their callers *)

\* C4: when the backend answers a gateway call with ResourceExhausted, every
\* request the backend then receives carries the prompt and the system
\* instruction of the original call.
C4_RetrySameRequest == sent # None => sent = orig

\* C5: under sustained rate limiting a gateway call ends, by returning or by
\* raising; it does not retry forever.
C5_RetryTerminates ==
    (backend = "rate_limited" /\ pc = "gateway") ~> (pc = "done")

\* C6: a SAFETY answer makes the call raise AiError out of
\* ask_google_structured and ask_google_big_prompt, with no record list
\* returned, and the step after it is no further backend request of the call.
C6_SafetyPropagates ==
    /\ [](resp = "SAFETY" =>
            /\ pc = "done"
            /\ outcome = "raised"
            /\ error = "AiError"
            /\ output = <<>>)
    /\ [][resp = "SAFETY" => nSent' = 0]_vars

\* C6's case: the backend answered SAFETY to the retried request of a
\* structured call.
C6_Witness ==
    /\ resp = "SAFETY"
    /\ op \in StructuredCallers
    /\ nSent = 2
    /\ outcome = "raised"

\* C7, as claimed: no candidate or no text part, and no safety signal, makes
\* the gateway fail with a dedicated BadResponse error.
C7_BadResponseTyped ==
    resp \in {"NoCandidate", "NoPart"} =>
        outcome = "raised" /\ error = "BadResponse"

\* C7, amended: no candidate or no text part, and no safety signal, makes the
\* gateway call fail with the IndexError of the empty list it indexes, which
\* is not the safety error AiError; no text is returned.
C7_BadResponseIsIndexError ==
    resp \in {"NoCandidate", "NoPart"} =>
        pc = "done" /\ outcome = "raised" /\ error = "IndexError"

\* C7's case: the backend answered with a candidate that has no part.
C7_Witness == resp = "NoPart" /\ outcome = "raised" /\ op = "gen_areas"

IsValidLine(line) == line.kind = "valid"

\* the records of the lines of t that parse and validate, in their order
ValidRecords(t) ==
    LET v == SelectSeq(t, IsValidLine)
    IN  [i \in 1..Len(v) |-> [name |-> v[i].name]]

\* C8: ask_google_structured returns exactly the records of the lines that
\* parse and validate, in their order, and no malformed line makes it raise.
C8_ExtractionKeepsValidInOrder ==
    /\ pc = "extract" =>
        output = ValidRecords(SubSeq(text, 1, idx)) /\ outcome = "pending"
    /\ pc = "caller" =>
        output = ValidRecords(text) /\ outcome = "pending" /\ error = "none"
    /\ op \in StructuredCallers \cup CliOps => error \notin LineErrors

\* C8's case: a text of three lines, a malformed one between two records.
C8_Witness ==
    /\ pc = "caller"
    /\ Len(text) = 3
    /\ text[2].kind = "nonobject"
    /\ output = <<[name |-> "b"], [name |-> "a"]>>

\* C9: when the response yields no valid record, gen_setting_desc, gen_boss,
\* craft, gen_areas, gen_monsters, gen_items and gen_characters complete
\* without raising.
C9_EmptyResultIsNoError ==
    (op \in StructuredCallers /\ pc = "done" /\ resp = "Text"
        /\ output = <<>>) => outcome = "returned"

\* C10: with a backend that always returns an empty batch, the generation
\* loop ends.
C10_LoopTerminates ==
    (backend = "empty" /\ op \in CliOps /\ pc = "loop") ~> (pc = "done")

-----------------------------------------------------------------------------
(* Claims about the requirement analyzer and the convergence loop *)

\* C11: with a backend that always returns operations satisfying what the
\* current instruction lists, gen_anything started on a state holding only a
\* theme issues at most 6 requests, the seed request included, and reaches
\* Converged: it returns with no requirement missing.
C11_ConvergesWithinSix ==
    /\ [](stub.mode = "cooperative" => rounds <= 6)
    /\ (stub.mode = "cooperative" /\ pc = "idle")
            ~> (pc = "done" /\ missing_requirements(gs) = <<>>)

\* C11's case: the loop converged after a seed request that left monster
\* and item definitions missing and a second request that listed them.
C11_Witness ==
    /\ stub.mode = "cooperative"
    /\ pc = "done"
    /\ rounds = 2
    /\ Asks(instruction, "monster")
    /\ Asks(instruction, "item")
    /\ Len(gs.areas) = 3

\* the areas of state that list the enemy name n
Listing(state, n) ==
    {i \in 1..Len(state.areas) :
        \E j \in 1..Len(state.areas[i].enemies) :
            state.areas[i].enemies[j] = n}

\* the number of entries of seq equal to x
CountOf(seq, x) == Cardinality({i \in 1..Len(seq) : seq[i] = x})

\* C12: when one or more areas list the enemy name n and no monster named n
\* is defined, missing_requirements holds exactly one monster-definition
\* requirement for n, however many areas list it.
C12_OneRequirementPerMonster ==
    \A n \in MonsterNames :
        (Listing(gs, n) # {} /\ ~Defined(gs.monsters, n)) =>
            CountOf(missing_requirements(gs), Requirement("monster", n)) = 1

\* C12's case: three areas list m1 and no monster m1 is defined.
C12_Witness ==
    /\ Cardinality(Listing(gs, "m1")) = 3
    /\ ~Defined(gs.monsters, "m1")

\* every name an area or a character of the operations ops refers to is
\* defined in state or by one of the operations
RefConsistent(ops, state) ==
    LET HasMonster(n) ==
            \/ Defined(state.monsters, n)
            \/ \E o \in ops :
                o.add_monster_def # None /\ o.add_monster_def.name = n
        HasItem(n) ==
            \/ Defined(state.items, n)
            \/ \E o \in ops :
                o.add_item_def # None /\ o.add_item_def.name = n
    IN  \A a \in ops :
            /\ a.add_area # None =>
                /\ \A i \in 1..Len(a.add_area.enemies) :
                        HasMonster(a.add_area.enemies[i])
                /\ \A l \in {a.add_area.equipment, a.add_area.melee_weapons,
                              a.add_area.ranged_weapons, a.add_area.food} :
                        \A i \in 1..Len(l) : HasItem(l[i])
            /\ a.add_character # None =>
                \A i \in 1..Len(a.add_character.starting_items) :
                    HasItem(a.add_character.starting_items[i])

\* C13: a batch of operations whose areas and characters refer only to
\* content that the state or the batch itself defines leaves
\* missing_requirements with at most as many entries as before the batch.
C13_RequirementsNeverGrow ==
    [][(pending' # pending
        /\ RefConsistent(BagToSet(pending (-) pending'), gs)) =>
            Len(missing_requirements(gs')) <= Len(missing_requirements(gs))]_vars

\* C13's case: the definitions of m1 and i1 were applied, then an area that
\* refers to them.
C13_Witness ==
    /\ BagCardinality(pending) = BagCardinality(fullBatch) - 3
    /\ Len(gs.monsters) = 1
    /\ Len(gs.items) = 1
    /\ Len(gs.areas) = 1
    /\ gs.areas[1].enemies = <<"m1">>
    /\ Len(missing_requirements(gs)) = 4

\* the number of operations of bag that are in the set S
CountOps(bag, S) ==
    BagCardinality([o \in BagToSet(bag) \cap S |-> bag[o]])

\* bag is 1 setting description, 3 areas, a monster for every enemy name the
\* areas refer to, an item for every item name the areas and characters
\* refer to, 1 boss and at least 3 characters
IsCompleteBatch(bag) ==
    LET ops == BagToSet(bag)
        areas == {o.add_area : o \in {x \in ops : x.add_area # None}}
        chars == {o.add_character :
                    o \in {x \in ops : x.add_character # None}}
        monsters == {o.add_monster_def.name :
                        o \in {x \in ops : x.add_monster_def # None}}
        items == {o.add_item_def.name :
                    o \in {x \in ops : x.add_item_def # None}}
    IN  /\ \A o \in ops : Populated(o) = 1
        /\ CountOps(bag, {o \in ops : Truthy(o.set_setting_desc)}) = 1
        /\ CountOps(bag, {o \in ops : o.set_setting_desc # NoneStr}) = 1
        /\ CountOps(bag, {o \in ops : o.add_area # None}) = 3
        /\ Cardinality({a.name : a \in areas}) = 3
        /\ \A a \in areas :
            /\ \A i \in 1..Len(a.enemies) : a.enemies[i] \in monsters
            /\ \A l \in {a.equipment, a.melee_weapons, a.ranged_weapons,
                          a.food} :
                    \A i \in 1..Len(l) : l[i] \in items
        /\ \A c \in chars :
                \A i \in 1..Len(c.starting_items) : c.starting_items[i] \in items
        /\ CountOps(bag, {o \in ops : o.set_boss # None}) = 1
        /\ CountOps(bag, {o \in ops : o.add_character # None}) >= 3

\* C14: once every operation of such a batch is applied to a state that held
\* only a theme, in whatever order, missing_requirements is empty.
C14_CompleteBatchLeavesNothingMissing ==
    (pending = EmptyBag /\ IsCompleteBatch(fullBatch)) =>
        missing_requirements(gs) = <<>>

\* C14's case: the batch with two monsters, applied with the third area
\* first, the second monster before the first and the boss set.
C14_Witness ==
    /\ pending = EmptyBag
    /\ IsCompleteBatch(fullBatch)
    /\ gs.areas[1].name = "A3"
    /\ gs.areas[3].enemies = <<"m1", "m2">>
    /\ gs.monsters[1].name = "m2"
    /\ Len(gs.characters) = 3

\* q is p followed by at most one more entry
NextOf(p, q) ==
    /\ Len(q) - Len(p) \in {0, 1}
    /\ SubSeq(q, 1, Len(p)) = p

LastError(lines) ==
    LET bad == {i \in 1..Len(lines) : LineError(lines[i]) # "none"}
    IN  IF bad = {} THEN "none"
        ELSE LineError(lines[CHOOSE i \in bad : \A j \in bad : j <= i])

\* C17: a stream that ends with no operation extracted and at least one
\* extraction error raises the last of these errors; a stream with at least
\* one operation extracted ends without raising, whatever was dropped.
C17_StreamEndFailure ==
    (op = "gen_actions" /\ pc = "done") =>
        /\ (output = <<>> /\ LastError(text) # "none") =>
                (outcome = "raised" /\ error = LastError(text))
        /\ output # <<>> => outcome = "returned"

\* C17's case: every line of the stream was dropped, the last one for
\* another error than the ones before it.
C17_Witness ==
    /\ op = "gen_actions"
    /\ pc = "done"
    /\ output = <<>>
    /\ Len(text) = 3
    /\ LineError(text[1]) = "ValidationError"
    /\ LineError(text[3]) = "TypeError"
    /\ outcome = "raised"
    /\ error = "TypeError"

\* C16: when gen_anything("Generate everything", state) returns for a state
\* that held only a theme, the state holds exactly three areas.
C16_ExactlyThreeAreas ==
    (op = "gen_anything" /\ pc = "done" /\ outcome = "returned") =>
        Len(gs.areas) = 3

\* C18: a request to the anything endpoint whose state fails validation is
\* rejected with the validation failure, and no model gateway call is made
\* for it.
C18_InvalidStateNoModelCall ==
    (endpoint = "v1_anything" /\ body = "invalid_state") =>
        /\ calls = 0
        /\ pc \notin {"dispatch", "gen"}
        /\ pc = "done" =>
            (outcome = "raised" /\ error = "ValidationError" /\ status = 500)

\* C18's case: the request with the invalid state has been answered.
C18_Witness ==
    /\ endpoint = "v1_anything"
    /\ body = "invalid_state"
    /\ req_theme = "Cyberpunk"
    /\ pc = "done"
    /\ status = 500
    /\ calls = 0

\* C19 as stated: every request whose theme is "pregen" is answered with
\* fixture content and makes no model gateway call.
C19_PregenAlwaysFixture ==
    req_theme = PREGEN_THEME =>
        /\ calls = 0
        /\ pc = "done" => (status = 200 /\ payload = "fixture")

\* C19: a request whose theme is "pregen" makes no model gateway call; when
\* its body holds what the handler reads before and for the canned answer,
\* it is answered with fixture content.
C19_PregenFixtureForReadableBody ==
    req_theme = PREGEN_THEME =>
        /\ calls = 0
        /\ (pc = "done" /\ body = "ok") =>
                (status = 200 /\ payload = "fixture")
        /\ (pc = "done" /\ body # "ok") =>
                (status = 500 /\ payload = "internal_error")

\* C19's case: a pregen craft request has got its canned answer.
C19_Witness ==
    /\ req_theme = PREGEN_THEME
    /\ endpoint = "v1_craft"
    /\ body = "ok"
    /\ pc = "done"
    /\ payload = "fixture"
    /\ calls = 0

\* C20: a safety rejection raised while an endpoint is served is answered
\* with status 500 and an error payload that carries the reason; no success
\* payload is returned for that request.
C20_SafetyRejectionReported ==
    error = "AiError" =>
        /\ payload \in {"none", "error_reason"}
        /\ outcome # "returned"
        /\ pc \in {"raised", "done"}
        /\ pc = "done" => (status = 500 /\ payload = "error_reason")

\* C20's case: the gateway was rate limited, called again and raised the
\* safety rejection, which has been answered.
C20_Witness ==
    /\ error = "AiError"
    /\ endpoint = "v1_monsters"
    /\ resp = "SAFETY"
    /\ calls = 2
    /\ pc = "done"
    /\ status = 500
    /\ payload = "error_reason"

\* the value the claim expects for an enum-typed field: the value itself
\* when it is in the vocabulary, the default otherwise
Substituted(values, default, v) == IF v \in values THEN v ELSE default

\* C21: the validation of an enum-typed field of Monster or Item never
\* rejects a value outside the vocabulary: it puts lightgray for a color and
\* normal for a type, and every value of the vocabulary is kept.
C21_EnumFieldsNeverRejected ==
    validated # Unvalidated =>
        /\ validated.status = "ok"
        /\ raw.model = "Monster" =>
            /\ validated.value.color =
                    Substituted(ColorValues, "lightgray", raw.color)
            /\ validated.value.type1 =
                    Substituted(PokemonTypeValues, "normal", raw.type1)
            /\ validated.value.type2 =
                    Substituted(PokemonTypeValues \cup {NoneStr}, "normal",
                                raw.type2)
            /\ validated.value.attack_type =
                    Substituted(PokemonTypeValues, "normal", raw.attack_type)
        /\ raw.model = "Item" =>
            /\ validated.value.type =
                    Substituted(PokemonTypeValues, "normal", raw.type)
            /\ raw.kind \in ItemKindValues =>
                    validated.value.kind = raw.kind

-----------------------------------------------------------------------------
(* Claims about the merge of one action *)

\* new is old with every entry named like e replaced by e, or, when no entry
\* is named like e, old with e appended
Upserted(old, new, e) ==
    IF \E i \in 1..Len(old) : old[i].name = e.name
    THEN /\ Len(new) = Len(old)
         /\ \A i \in 1..Len(old) :
                new[i] = IF old[i].name = e.name THEN e ELSE old[i]
    ELSE new = Append(old, e)

\* C22: apply_action with add_monster_def (or add_item_def) replaces the
\* entry of that name at its position and leaves the length of the list
\* unchanged; when no entry has the name it appends exactly one entry.
C22_MonsterItemUpsert ==
    [][/\ lastAct'.add_monster_def # None =>
            Upserted(gs.monsters, gs'.monsters, lastAct'.add_monster_def)
       /\ lastAct'.add_item_def # None =>
            Upserted(gs.items, gs'.items, lastAct'.add_item_def)]_vars

\* new is old with the first area named like e replaced by e and every
\* other area unchanged, or, when no area is named like e, old with e
\* appended
AreaUpserted(old, new, e) ==
    LET first == FirstMatch(old, e.name)
    IN  IF first > 0
        THEN /\ Len(new) = Len(old)
             /\ new[first] = e
             /\ \A i \in 1..Len(old) : i # first => new[i] = old[i]
        ELSE new = Append(old, e)

\* C23: apply_action with add_area replaces the area of that name at its
\* position and leaves the length of the list and every other area
\* unchanged; when no area has the name it appends the area and changes no
\* existing area.
C23_AreaUpsert ==
    [][lastAct'.add_area # None =>
            AreaUpserted(gs.areas, gs'.areas, lastAct'.add_area)]_vars

\* C23's case: an area applied twice in a row next to an area of another
\* name: the second application found the name and replaced in place.
C23_Witness ==
    /\ twice
    /\ lastAct.add_area # None
    /\ Len(gs.areas) = 2
    /\ gs.areas[1] = lastAct.add_area
    /\ gs.areas[2].name # lastAct.add_area.name

\* the single-field actions obtained by splitting action a, one for each
\* populated field, in the order of the fields
Singles(a) ==
    SelectSeq(<<[NoAction EXCEPT !.set_setting_desc = a.set_setting_desc],
                [NoAction EXCEPT !.add_area = a.add_area],
                [NoAction EXCEPT !.add_monster_def = a.add_monster_def],
                [NoAction EXCEPT !.add_item_def = a.add_item_def],
                [NoAction EXCEPT !.set_boss = a.set_boss],
                [NoAction EXCEPT !.add_character = a.add_character]>>,
              LAMBDA x : Populated(x) = 1)

\* the orders in which n things can be taken
Orders(n) == {f \in [1..n -> 1..n] : \A i, j \in 1..n : f[i] = f[j] => i = j}

\* C24: applying an action with several populated fields gives the state
\* that applying its single-field parts one by one gives, in every order.
C24_FieldsIndependent ==
    [][Populated(lastAct') >= 2 =>
        \E singles \in {Singles(lastAct')} :
            \A f \in Orders(Len(singles)) :
                gs' = ApplyAll(gs, [i \in 1..Len(singles) |-> singles[f[i]]])]_vars

\* C24's case: an action with four populated fields has been applied to a
\* state that held the area's name.
C24_Witness ==
    /\ lastAct # None
    /\ Populated(lastAct) = 4
    /\ lastAct.add_area # None
    /\ lastAct.add_monster_def # None
    /\ Len(gs.areas) = 1
    /\ Len(gs.monsters) = 1
    /\ gs.boss = lastAct.set_boss
    /\ gs.setting_desc = lastAct.set_setting_desc

\* C25: apply_action overwrites the setting description with the new value
\* exactly when set_setting_desc is a non-empty string; an absent or empty
\* value leaves the setting description as it was.
C25_SettingDescOverwrite ==
    [][IF lastAct'.set_setting_desc \notin {NoneStr, ""}
       THEN gs'.setting_desc = lastAct'.set_setting_desc
       ELSE gs'.setting_desc = gs.setting_desc]_vars

\* C25's case: an action with an empty setting description was applied to a
\* state that has one.
C25_Witness ==
    /\ lastAct # None
    /\ lastAct.set_setting_desc = ""
    /\ gs.setting_desc = "s2"

\* C26: apply_action with add_character lengthens the list of characters by
\* exactly one and puts the new character at its end, also when a character
\* of that name is in the list.
C26_CharacterAppended ==
    [][lastAct'.add_character # None =>
        gs'.characters = Append(gs.characters, lastAct'.add_character)]_vars

\* C26's case: the same add_character action applied twice in a row: both
\* characters are in the list.
C26_Witness ==
    /\ twice
    /\ lastAct.add_character # None
    /\ Len(gs.characters) = 2
    /\ gs.characters[1] = lastAct.add_character
    /\ gs.characters[2] = lastAct.add_character

\* C27: apply_action with set_boss makes the boss of the state the new
\* boss, whether there was a boss or none; nothing of the previous boss
\* remains.
C27_BossOverwritten ==
    [][lastAct'.set_boss # None => gs'.boss = lastAct'.set_boss]_vars

\* C27's case: an action that only sets a boss has been applied and the
\* state holds that boss.
C27_Witness ==
    /\ lastAct # None
    /\ lastAct.set_boss # None
    /\ ~twice
    /\ lastAct.set_boss.description = "d2"
    /\ gs.boss = lastAct.set_boss
    /\ Populated(lastAct) = 1

\* the fields of a GameState that no populated field of action a names
FrameOf(a) ==
    {"theme"}
        \cup (IF a.set_setting_desc = NoneStr THEN {"setting_desc"} ELSE {})
        \cup (IF a.add_area = None THEN {"areas"} ELSE {})
        \cup (IF a.add_monster_def = None THEN {"monsters"} ELSE {})
        \cup (IF a.add_item_def = None THEN {"items"} ELSE {})
        \cup (IF a.set_boss = None THEN {"boss"} ELSE {})
        \cup (IF a.add_character = None THEN {"characters"} ELSE {})

\* C28: apply_action changes only the fields of the state that populated
\* fields of the action name: never the theme, nothing at all for an action
\* with no populated field, and nothing but its own field for an action with
\* one populated field.
C28_OnlyPopulatedFieldsChange ==
    [][/\ \A f \in FrameOf(lastAct') : gs'[f] = gs[f]
       /\ Populated(lastAct') = 0 => gs' = gs]_vars

\* C28's case: an action that only sets the boss has been applied to a state
\* that holds a setting description, an area and a character.
C28_Witness ==
    /\ lastAct # None
    /\ Populated(lastAct) = 1
    /\ lastAct.set_boss # None
    /\ gs.setting_desc = "s1"
    /\ Len(gs.areas) = 1
    /\ Len(gs.characters) = 1

-----------------------------------------------------------------------------
(* Claims about ask_google_json_merge *)

\* the call failed: reading the backend's answer raised, or the text it
\* returned fails JSON parsing or AiAction validation
MergeFailed ==
    \/ ReadCandidate(resp) # "none" /\ resp # "none"
    \/ text # <<>> /\ text[1].kind # "valid"

\* C29: when the gateway call fails or the answer fails JSON parsing or
\* AiAction validation, ask_google_json_merge raises and the GameState is
\* the one it was called with; the state changes only by apply_action on the
\* validated action.
C29_FailedMergeKeepsState ==
    op = JsonMerge =>
        /\ (pc = "done" /\ MergeFailed) =>
                (outcome = "raised" /\ gs = orig.prompt)
        /\ pc # "done" => gs = orig.prompt
        /\ outcome = "returned" =>
                (/\ text[1].kind = "valid"
                 /\ gs = apply_action(orig.prompt, text[1].action))

\* C29's case: after a rate-limited attempt the backend returned an object
\* that fails AiAction validation, and the call raised with the state
\* untouched.
C29_Witness ==
    /\ op = JsonMerge
    /\ pc = "done"
    /\ outcome = "raised"
    /\ error = "ValidationError"
    /\ nSent = 2
    /\ gs.setting_desc = "s2"
    /\ gs = orig.prompt

=============================================================================
